---------------------------- MODULE Spec2Model ----------------------------
(***************************************************************************)
(* A state-machine model of the mynah-ui widgets PromptTextInput,          *)
(* FeedbackForm, SyntaxHighlighter and Select.                             *)
(*                                                                         *)
(* Every widget runs on the browser's single UI thread: one action is one  *)
(* event handler or one public method run to completion.  `calls` holds    *)
(* the callback props and global events invoked by the most recent step,   *)
(* in order.                                                               *)
(***************************************************************************)
EXTENDS Naturals, Sequences, FiniteSets, Bags

(***************************************************************************)
(* Bounds of the model.                                                    *)
(***************************************************************************)
\* longest textarea content explored
MaxLen == 2
\* most feedback options configured
MaxOptions == 2
\* most deferred show() callbacks pending at once
MaxTimers == 2
\* most clipboard writes in flight at once
MaxPending == 1

\* JavaScript `undefined`, and the DOM's "attribute absent"
Undefined == "undefined"

(***************************************************************************)
(* Strings of the prompt textarea: sequences of characters.                *)
(***************************************************************************)
LF == "\n"
CR == "\r"
Chars == {"a", LF, CR}
WhiteSpace == {" ", "\t", LF, CR}

Str == UNION {[1..n -> Chars] : n \in 0..MaxLen}

\* the HTML standard's "normalize newlines": CRLF and a lone CR become LF
RECURSIVE NormalizeNewlines(_)
NormalizeNewlines(s) ==
  IF s = <<>> THEN <<>>
  ELSE IF Head(s) = CR
       THEN IF Len(s) >= 2 /\ s[2] = LF
            THEN <<LF>> \o NormalizeNewlines(SubSeq(s, 3, Len(s)))
            ELSE <<LF>> \o NormalizeNewlines(Tail(s))
       ELSE <<Head(s)>> \o NormalizeNewlines(Tail(s))

\* String.prototype.trim
RECURSIVE TrimStart(_)
TrimStart(s) ==
  IF s # <<>> /\ Head(s) \in WhiteSpace THEN TrimStart(Tail(s)) ELSE s

RECURSIVE TrimEnd(_)
TrimEnd(s) ==
  IF s # <<>> /\ s[Len(s)] \in WhiteSpace
  THEN TrimEnd(SubSeq(s, 1, Len(s) - 1)) ELSE s

Trim(s) == TrimEnd(TrimStart(s))

\* String.prototype.substring(from) and substring(0, to), 0-based
SubstringFrom(s, from) == SubSeq(s, from + 1, Len(s))
SubstringTo(s, to) == SubSeq(s, 1, IF to < Len(s) THEN to ELSE Len(s))

(***************************************************************************)
(* The environment: the tab-scoped store and the configuration.            *)
(***************************************************************************)
Tabs == {"t1", "t2"}
\* props.tabId of the PromptTextInput
PromptTabId == "t1"
Placeholders == {"p1", "p2"}
Keys == {"", "a", "Enter"}
\* maximum lengths handed to the widget (numbers, kept symbolic)
LengthValues == {"100", "200"}

VARIABLES
  tabStore,     \* MynahUITabsStore: tab -> key -> value
  autoFocus,    \* Config.getInstance().config.autoFocus
  calls,        \* callbacks and dispatches made by the last step
  \* ---- PromptTextInput
  hasOnInput,                 \* props.onInput !== undefined
  value,                      \* promptTextInput's raw value
  disabledAttr,               \* promptTextInput has the attribute disabled
  placeholderAttr,            \* promptTextInput's attribute placeholder
  maxlengthAttr,              \* promptTextInput's attribute maxlength
  promptTextInputMaxLength,
  keydownSupport,
  noText,                     \* render has the class no-text
  inputHasFocus,              \* render has the class input-has-focus
  sizerHTML,                  \* promptTextInputSizer.innerHTML
  \* ---- history of the PromptTextInput
  lastSet,          \* the latest user input or programmatic set
  keyLog,           \* the latest key event and the calls it made
  lastDisabled,     \* <<b>>: the latest published disabled state b
  lastPlaceholder,  \* the latest placeholder source
  \* ---- FeedbackForm
  feedbackOptions,      \* Config.getInstance().config.feedbackOptions (values)
  feedbackPayload,
  wrapperExists,        \* this.feedbackFormWrapper !== undefined
  formShown,            \* the wrapper has the class mynah-feedback-form-show
  selectedIndex,        \* feedbackOptionsWrapper: the option shown (0: none)
  commentField,         \* feedbackComment: the content of the comment field
  showTimers,           \* pending setTimeout(() => this.show(), 5) callbacks
  \* ---- history of the FeedbackForm
  formStep,             \* the latest FeedbackForm step
  lastShow,             \* <<data>>: the latest SHOW_FEEDBACK_FORM event's data
  enteredOption,        \* the option last chosen, the default when untouched
  enteredComment,       \* the comment last entered, the default when untouched
  \* ---- SyntaxHighlighter (one entry per highlighter) and the document
  hlProps,              \* which optional props each highlighter was given
  flashing,             \* buttons with the class mynah-button-flash-by-parent-focus
  documentSelection,    \* document.getSelection(): Undefined, or its text
  pendingWrites,        \* clipboard writes in flight (a bag)
  clipboard,            \* the text on the system clipboard
  \* ---- history of the SyntaxHighlighter
  hlStep                \* the latest SyntaxHighlighter step, the calls it made

promptVars == <<hasOnInput, value, disabledAttr,
                placeholderAttr, maxlengthAttr, promptTextInputMaxLength,
                keydownSupport, noText, inputHasFocus, sizerHTML,
                lastSet, keyLog, lastDisabled, lastPlaceholder>>
envVars == <<tabStore, autoFocus>>
feedbackVars == <<feedbackOptions, feedbackPayload, wrapperExists, formShown,
                  selectedIndex, commentField, showTimers, formStep, lastShow,
                  enteredOption, enteredComment>>
highlighterVars == <<hlProps, flashing, documentSelection, pendingWrites,
                     clipboard, hlStep>>
vars == <<envVars, calls, promptVars, feedbackVars, highlighterVars>>

(***************************************************************************)
(* PromptTextInput                                                         *)
(***************************************************************************)
\* the textarea's `value` getter: the raw value with newlines normalized
TextareaValue == NormalizeNewlines(value)

getTextInputValue == TextareaValue

\* placeHolder arguments of updateTextInputValue
\* (index is <<>> when undefined, <<i>> otherwise)
NoPlaceHolder == [index |-> <<>>, text |-> Undefined]
PlaceHolderArgs == {NoPlaceHolder,
                    [index |-> <<>>, text |-> "ph"],
                    [index |-> <<0>>, text |-> "ph"]}
\* placeHolder.index ?? initProcessedValue.length
PlaceHolderIndex(ph, len) ==
  IF ph.index = <<>> THEN len ELSE ph.index[1]

\* line 128: every \n becomes <br>, and &nbsp is appended
SizerMarkup(s) ==
  [i \in 1..Len(s) |-> IF s[i] = LF THEN "<br>" ELSE s[i]] \o <<"&nbsp">>

\* the innerHTML updatePromptTextInputSizer writes for textarea content v
SizerInnerHTML(v, ph) ==
  IF ph.text # Undefined
  THEN SizerMarkup(
         SubstringTo(v, PlaceHolderIndex(ph, Len(v)))
         \o <<" ", "<span class=\"placeholder\">ph</span>", " ">>
         \o SubstringFrom(v, PlaceHolderIndex(ph, Len(v)) + 1))
  ELSE SizerMarkup(v)

\* a no-text test that forgets to trim
NoTextClass_Untrimmed(v) == v = <<>>

\* lines 119-123: the class no-text after updatePromptTextInputSizer
NoTextClass(v) == Trim(v) = <<>>

\* updatePromptTextInputSizer, on a textarea whose raw value is raw
updatePromptTextInputSizer(raw, ph) ==
  /\ noText' = NoTextClass(NormalizeNewlines(raw))
  /\ sizerHTML' = SizerInnerHTML(NormalizeNewlines(raw), ph)

\* HTMLElement.focus(): a disabled control cannot take the focus; taking
\* it fires the focus event (lines 68-70)
DomFocus(isDisabled) ==
  inputHasFocus' = IF isDisabled THEN inputHasFocus ELSE TRUE

\* DomBuilder update({attributes: {placeholder: text}})
SetPlaceholderAttr(text) == placeholderAttr' = text

\* a callback prop invoked: calling an absent prop throws a TypeError
InvokeProp(present, call) ==
  IF present THEN <<call>> ELSE <<[fn |-> "TypeError"]>>

\* a keydown handler that forwards every event
KeydownHasKey_Always(key) == TRUE

\* line 53: a keydown is forwarded iff e.key !== ''
KeydownHasKey(key) == key # ""

\* line 48: a keypress is forwarded iff !this.keydownSupport
KeypressForwarded(support) == ~support

\* line 64: this.props.onInput !== undefined
OnInputDefined == hasOnInput

\* a focus that clears the value whatever its argument
FocusClearsValue_Always(cursorIndex) == TRUE

\* lines 147-151: focus clears the value iff cursorIndex == null
FocusClearsValue(cursorIndex) == cursorIndex = <<>>

\* a subscription that never removes the attribute
DisabledAfterPublish_Sticky(isDisabled) == TRUE

\* lines 87-95: the attribute disabled after isDisabled was published
DisabledAfterPublish(isDisabled) == isDisabled

\* a subscription without the undefined check
PlaceholderPublished_Unchecked(text) == TRUE

\* line 99: the subscription updates the attribute iff the text is defined
PlaceholderPublished(text) == text # Undefined

\* what the user can leave in the textarea: line breaks typed or pasted
\* are stored as LF
UserText == {s \in Str : NormalizeNewlines(s) = s}

\* lines 22-113: the widget as constructed
InitPrompt ==
  /\ tabStore \in [Tabs -> [promptInputDisabledState : BOOLEAN,
                            promptInputPlaceholder : Placeholders \cup {Undefined}]]
  /\ autoFocus \in BOOLEAN
  /\ calls = <<>>
  /\ hasOnInput \in BOOLEAN
  /\ value = <<>>
  /\ disabledAttr = tabStore[PromptTabId].promptInputDisabledState
  /\ placeholderAttr = tabStore[PromptTabId].promptInputPlaceholder
  /\ maxlengthAttr = "MAX_USER_INPUT"
  /\ promptTextInputMaxLength \in LengthValues
  /\ keydownSupport = TRUE
  /\ noText = TRUE
  /\ inputHasFocus = FALSE
  /\ sizerHTML = <<>>
  /\ lastSet = <<>>
  /\ keyLog = [event |-> "none", downKey |-> Undefined,
               downMade |-> <<>>, made |-> <<>>]
  /\ lastDisabled = <<>>
  /\ lastPlaceholder = "none"

\* lines 52-59
KeydownEvent(key) ==
  /\ ~disabledAttr
  /\ keydownSupport' = KeydownHasKey(key)
  /\ calls' = IF KeydownHasKey(key)
              THEN <<[fn |-> "onKeydown", event |-> "keydown", key |-> key]>>
              ELSE <<>>
  /\ keyLog' = [event |-> "keydown", downKey |-> key,
                downMade |-> calls', made |-> calls']
  /\ UNCHANGED <<feedbackVars, highlighterVars>>
  /\ UNCHANGED <<envVars, hasOnInput, value, disabledAttr,
                 placeholderAttr, maxlengthAttr, promptTextInputMaxLength,
                 noText, inputHasFocus, sizerHTML, lastSet, lastDisabled,
                 lastPlaceholder>>

\* lines 47-51
KeypressEvent(key) ==
  /\ ~disabledAttr
  /\ calls' = IF KeypressForwarded(keydownSupport)
              THEN <<[fn |-> "onKeydown", event |-> "keypress", key |-> key]>>
              ELSE <<>>
  /\ keyLog' = [keyLog EXCEPT !.event = "keypress", !.made = calls']
  /\ UNCHANGED <<feedbackVars, highlighterVars>>
  /\ UNCHANGED <<envVars, hasOnInput, value, disabledAttr,
                 placeholderAttr, maxlengthAttr, promptTextInputMaxLength,
                 keydownSupport, noText, inputHasFocus, sizerHTML, lastSet,
                 lastDisabled, lastPlaceholder>>

\* lines 60-67: the user edits the textarea to v
InputEvent(v) ==
  /\ ~disabledAttr
  /\ value' = v
  /\ updatePromptTextInputSizer(v, NoPlaceHolder)
  /\ calls' = IF OnInputDefined
              THEN InvokeProp(hasOnInput, [fn |-> "onInput"])
              ELSE <<>>
  /\ lastSet' = v
  /\ UNCHANGED <<feedbackVars, highlighterVars>>
  /\ UNCHANGED <<envVars, hasOnInput, disabledAttr, placeholderAttr,
                 maxlengthAttr, promptTextInputMaxLength, keydownSupport,
                 inputHasFocus, keyLog, lastDisabled, lastPlaceholder>>

\* lines 68-70: the user moves the focus into the textarea
FocusEvent ==
  /\ ~disabledAttr
  /\ inputHasFocus' = TRUE
  /\ calls' = <<>>
  /\ UNCHANGED <<feedbackVars, highlighterVars>>
  /\ UNCHANGED <<envVars, hasOnInput, value, disabledAttr,
                 placeholderAttr, maxlengthAttr, promptTextInputMaxLength,
                 keydownSupport, noText, sizerHTML, lastSet, keyLog, lastDisabled,
                 lastPlaceholder>>

\* lines 71-73
BlurEvent ==
  /\ inputHasFocus
  /\ inputHasFocus' = FALSE
  /\ calls' = <<>>
  /\ UNCHANGED <<feedbackVars, highlighterVars>>
  /\ UNCHANGED <<envVars, hasOnInput, value, disabledAttr,
                 placeholderAttr, maxlengthAttr, promptTextInputMaxLength,
                 keydownSupport, noText, sizerHTML, lastSet, keyLog, lastDisabled,
                 lastPlaceholder>>

\* lines 86-96: the tab store publishes promptInputDisabledState for tab
PublishDisabledState(tab, isDisabled) ==
  /\ tabStore' = [tabStore EXCEPT ![tab].promptInputDisabledState = isDisabled]
  /\ IF tab = PromptTabId
     THEN /\ disabledAttr' = DisabledAfterPublish(isDisabled)
          /\ IF ~isDisabled /\ autoFocus
             THEN DomFocus(FALSE)
             ELSE UNCHANGED inputHasFocus
     ELSE UNCHANGED <<disabledAttr, inputHasFocus>>
  /\ lastDisabled' = IF tab = PromptTabId THEN <<isDisabled>> ELSE lastDisabled
  /\ calls' = <<>>
  /\ UNCHANGED <<feedbackVars, highlighterVars>>
  /\ UNCHANGED <<autoFocus, hasOnInput, value,
                 placeholderAttr, maxlengthAttr, promptTextInputMaxLength,
                 keydownSupport, noText, sizerHTML, lastSet, keyLog,
                 lastPlaceholder>>

\* lines 98-106: the tab store publishes promptInputPlaceholder for tab
PublishPlaceholder(tab, text) ==
  /\ tabStore' = [tabStore EXCEPT ![tab].promptInputPlaceholder = text]
  /\ IF tab = PromptTabId /\ PlaceholderPublished(text)
     THEN SetPlaceholderAttr(text)
     ELSE UNCHANGED placeholderAttr
  /\ lastPlaceholder' = IF tab = PromptTabId /\ text # Undefined
                        THEN text ELSE lastPlaceholder
  /\ calls' = <<>>
  /\ UNCHANGED <<feedbackVars, highlighterVars>>
  /\ UNCHANGED <<autoFocus, hasOnInput, value, disabledAttr,
                 maxlengthAttr, promptTextInputMaxLength, keydownSupport,
                 noText, inputHasFocus, sizerHTML, lastSet, keyLog, lastDisabled>>

\* lines 108-112: the global event TAB_FOCUS
TabFocusEvent(tab) ==
  /\ IF tab = PromptTabId
     THEN DomFocus(disabledAttr)
     ELSE UNCHANGED inputHasFocus
  /\ calls' = <<>>
  /\ UNCHANGED <<feedbackVars, highlighterVars>>
  /\ UNCHANGED <<envVars, hasOnInput, value, disabledAttr,
                 placeholderAttr, maxlengthAttr, promptTextInputMaxLength,
                 keydownSupport, noText, sizerHTML, lastSet, keyLog, lastDisabled,
                 lastPlaceholder>>

\* lines 158-164
updateTextInputValue(v, ph) ==
  /\ value' = v
  /\ updatePromptTextInputSizer(v, ph)
  /\ lastSet' = v
  /\ calls' = <<>>
  /\ UNCHANGED <<feedbackVars, highlighterVars>>
  /\ UNCHANGED <<envVars, hasOnInput, disabledAttr, placeholderAttr,
                 maxlengthAttr, promptTextInputMaxLength, keydownSupport,
                 inputHasFocus, keyLog, lastDisabled, lastPlaceholder>>

\* lines 135-141
clear ==
  /\ value' = <<>>
  /\ updatePromptTextInputSizer(<<>>, NoPlaceHolder)
  /\ SetPlaceholderAttr(tabStore[PromptTabId].promptInputPlaceholder)
  /\ lastSet' = <<>>
  /\ lastPlaceholder' = tabStore[PromptTabId].promptInputPlaceholder
  /\ calls' = <<>>
  /\ UNCHANGED <<feedbackVars, highlighterVars>>
  /\ UNCHANGED <<envVars, hasOnInput, disabledAttr, maxlengthAttr,
                 promptTextInputMaxLength, keydownSupport, inputHasFocus,
                 keyLog, lastDisabled>>

\* lines 143-152; cursorIndex is <<>> when absent, <<i>> otherwise
\* (setSelectionRange moves only the caret, which is not part of the state)
focus(cursorIndex) ==
  /\ IF autoFocus THEN DomFocus(disabledAttr) ELSE UNCHANGED inputHasFocus
  /\ IF FocusClearsValue(cursorIndex)
     THEN /\ value' = <<>>
          /\ updatePromptTextInputSizer(<<>>, NoPlaceHolder)
     ELSE UNCHANGED <<value, noText, sizerHTML>>
  /\ lastSet' = IF cursorIndex = <<>> THEN <<>> ELSE lastSet
  /\ calls' = <<>>
  /\ UNCHANGED <<feedbackVars, highlighterVars>>
  /\ UNCHANGED <<envVars, hasOnInput, disabledAttr, placeholderAttr,
                 maxlengthAttr, promptTextInputMaxLength, keydownSupport,
                 keyLog, lastDisabled, lastPlaceholder>>

\* lines 166-173
updateTextInputMaxLength(maxLength) ==
  /\ promptTextInputMaxLength' = maxLength
  /\ maxlengthAttr' = maxLength
  /\ calls' = <<>>
  /\ UNCHANGED <<feedbackVars, highlighterVars>>
  /\ UNCHANGED <<envVars, hasOnInput, value, disabledAttr,
                 placeholderAttr, keydownSupport, noText, inputHasFocus,
                 sizerHTML, lastSet, keyLog, lastDisabled, lastPlaceholder>>

\* lines 175-181
updateTextInputPlaceholder(text) ==
  /\ SetPlaceholderAttr(text)
  /\ lastPlaceholder' = text
  /\ calls' = <<>>
  /\ UNCHANGED <<feedbackVars, highlighterVars>>
  /\ UNCHANGED <<envVars, hasOnInput, value, disabledAttr,
                 maxlengthAttr, promptTextInputMaxLength, keydownSupport,
                 noText, inputHasFocus, sizerHTML, lastSet, keyLog, lastDisabled>>

(***************************************************************************)
(* Select                                                                  *)
(***************************************************************************)
OptionValues == {"o1", "o2"}

\* HTMLSelectElement: the first option whose value is v, 0 when there is none
RECURSIVE IndexOfValue(_, _, _)
IndexOfValue(options, v, i) ==
  IF i > Len(options) THEN 0
  ELSE IF options[i] = v THEN i ELSE IndexOfValue(options, v, i + 1)

\* lines 25-42 of the Select: a select built without a selected option
\* shows its first option
SelectInitialIndex(options) == IF Len(options) > 0 THEN 1 ELSE 0

\* Select.setValue: this.selectElement.value = value
Select_setValue(options, v) == IndexOfValue(options, v, 1)

\* Select.getValue: this.selectElement.value
Select_getValue(options, index) == IF index = 0 THEN "" ELSE options[index]

(***************************************************************************)
(* FeedbackForm                                                            *)
(***************************************************************************)
MessageIds == {"m1", "m2"}
FormTabIds == {"t1", "t2"}
Comments == {"c1", "c2"}
ShowData == [messageId : MessageIds, tabId : FormTabIds]

\* props.initPayload: a field that is Undefined is absent
NoInitPayload == [messageId |-> Undefined, tabId |-> Undefined,
                  selectedOption |-> Undefined, comment |-> Undefined]
InitPayloads ==
  {NoInitPayload,
   [NoInitPayload EXCEPT !.selectedOption = "o2"],
   [NoInitPayload EXCEPT !.comment = "c1"],
   [NoInitPayload EXCEPT !.messageId = "m1", !.tabId = "t1"]}

\* lines 210-216: the defaults, overridden by the fields of initPayload
ConstructorPayload(options, init) ==
  [selectedOption |-> IF init.selectedOption # Undefined
                      THEN init.selectedOption ELSE options[1],
   messageId |-> IF init.messageId # Undefined THEN init.messageId ELSE "",
   tabId |-> IF init.tabId # Undefined THEN init.tabId ELSE "",
   comment |-> IF init.comment # Undefined THEN init.comment ELSE ""]

\* a close() that keeps the message the form was opened for
ClosePayload_KeepsIds(options, payload) ==
  [messageId |-> payload.messageId, selectedOption |-> options[1],
   tabId |-> payload.tabId, comment |-> ""]

\* lines 317-322: the payload close() assigns
ClosePayload(options, payload) ==
  [messageId |-> "", selectedOption |-> options[1], tabId |-> "",
   comment |-> ""]

\* FeedbackFormComment.clear(): the comment field is emptied
FeedbackFormComment_clear == ""

\* new FeedbackFormComment({initComment}): the field starts with initComment
FeedbackFormComment_init(initComment) == initComment

\* lines 209-308: the form as constructed
InitForm ==
  /\ feedbackOptions \in UNION {[1..n -> OptionValues] : n \in 1..MaxOptions}
  /\ \E init \in InitPayloads :
       /\ feedbackPayload = ConstructorPayload(feedbackOptions, init)
       /\ commentField = FeedbackFormComment_init(
                          ConstructorPayload(feedbackOptions, init).comment)
       /\ enteredOption = IF init.selectedOption # Undefined
                          THEN init.selectedOption ELSE feedbackOptions[1]
       /\ enteredComment = IF init.comment # Undefined
                           THEN init.comment ELSE ""
  /\ wrapperExists = FALSE
  /\ formShown = FALSE
  /\ selectedIndex = SelectInitialIndex(feedbackOptions)
  /\ showTimers = 0
  /\ formStep = "constructor"
  /\ lastShow = <<>>

\* lines 218-239: the global event SHOW_FEEDBACK_FORM
ShowFeedbackFormEvent(data) ==
  /\ showTimers < MaxTimers
  /\ wrapperExists' = TRUE
  /\ feedbackPayload' = [feedbackPayload EXCEPT !.messageId = data.messageId,
                                                !.tabId = data.tabId]
  /\ showTimers' = showTimers + 1
  /\ formStep' = "showEvent"
  /\ lastShow' = <<data>>
  /\ calls' = <<>>
  /\ UNCHANGED <<feedbackOptions, formShown, selectedIndex, commentField,
                 enteredOption, enteredComment>>
  /\ UNCHANGED <<envVars, promptVars, highlighterVars>>

\* lines 236-238 and 326-328: a deferred show() runs
ShowTimerFires ==
  /\ showTimers > 0
  /\ showTimers' = showTimers - 1
  /\ formShown' = TRUE
  /\ formStep' = "show"
  /\ calls' = <<>>
  /\ UNCHANGED <<feedbackOptions, feedbackPayload, wrapperExists,
                 selectedIndex, commentField, lastShow, enteredOption,
                 enteredComment>>
  /\ UNCHANGED <<envVars, promptVars, highlighterVars>>

\* lines 241-247 with the Select's change event (its lines 30-34): the user
\* picks the option at index i of the shown form
SelectChangeEvent(i) ==
  /\ formShown
  /\ i # selectedIndex
  /\ selectedIndex' = i
  /\ feedbackPayload' =
       [feedbackPayload EXCEPT
          !.selectedOption = Select_getValue(feedbackOptions, i)]
  /\ formStep' = "optionChange"
  /\ enteredOption' = feedbackOptions[i]
  /\ calls' = <<>>
  /\ UNCHANGED <<feedbackOptions, wrapperExists, formShown, commentField,
                 showTimers, lastShow, enteredComment>>
  /\ UNCHANGED <<envVars, promptVars, highlighterVars>>

\* lines 249-254: the user edits the comment of the shown form to c
CommentChangeEvent(c) ==
  /\ formShown
  /\ c # commentField
  /\ commentField' = c
  /\ feedbackPayload' = [feedbackPayload EXCEPT !.comment = c]
  /\ formStep' = "commentChange"
  /\ enteredComment' = c
  /\ calls' = <<>>
  /\ UNCHANGED <<feedbackOptions, wrapperExists, formShown, selectedIndex,
                 showTimers, lastShow, enteredOption>>
  /\ UNCHANGED <<envVars, promptVars, highlighterVars>>

\* lines 314-324: the effect of close() on the form
closeForm ==
  /\ commentField' = FeedbackFormComment_clear
  /\ selectedIndex' = Select_setValue(feedbackOptions, feedbackOptions[1])
  /\ feedbackPayload' = ClosePayload(feedbackOptions, feedbackPayload)
  /\ formShown' = FALSE
  /\ enteredOption' = feedbackOptions[1]
  /\ enteredComment' = ""
  /\ UNCHANGED <<feedbackOptions, wrapperExists, showTimers, lastShow>>
  /\ UNCHANGED <<envVars, promptVars, highlighterVars>>

\* lines 314-324: close() called by the widget's owner
close ==
  /\ wrapperExists
  /\ closeForm
  /\ formStep' = "close"
  /\ calls' = <<>>

\* lines 296-302: the user clicks cancel on the shown form
CancelClick ==
  /\ formShown
  /\ closeForm
  /\ formStep' = "cancel"
  /\ calls' = <<>>

\* lines 277-283: the user clicks the header's close button
HeaderCloseClick ==
  /\ formShown
  /\ closeForm
  /\ formStep' = "headerClose"
  /\ calls' = <<>>

\* lines 310-312: onFeedbackSet dispatches FEEDBACK_SET with feedbackData
onFeedbackSet(feedbackData) ==
  <<[fn |-> "FEEDBACK_SET", payload |-> feedbackData]>>

\* lines 256-262: the user clicks submit on the shown form
SubmitClick ==
  /\ formShown
  /\ calls' = onFeedbackSet(feedbackPayload)
  /\ closeForm
  /\ formStep' = "submit"

(***************************************************************************)
(* SyntaxHighlighter                                                       *)
(***************************************************************************)
Highlighters == {1, 2}
\* props.index
HighlighterIndex(h) == h - 1
\* props.language
HighlighterLanguage(h) == IF h = 1 THEN "ts" ELSE Undefined
\* the text of the block: this.render.querySelector('pre')?.innerText
BlockText(h) == IF h = 1 THEN "block1" ELSE "block2"
\* texts the user can select in the document
Texts == {"s1", "s2"}

\* props.codeBlockActions: anyLanguage says acceptedLanguages is absent
CodeBlockActions ==
  [copy |-> [acceptedLanguages |-> {}, anyLanguage |-> TRUE,
             flash |-> Undefined],
   insert |-> [acceptedLanguages |-> {"ts"}, anyLanguage |-> FALSE,
               flash |-> Undefined],
   run |-> [acceptedLanguages |-> {"sh"}, anyLanguage |-> FALSE,
            flash |-> "infinite"]]
ActionIds == DOMAIN CodeBlockActions

\* line 430: the action gets a button in highlighter h
ValidAction(h, actionId) ==
  \/ CodeBlockActions[actionId].anyLanguage
  \/ HighlighterLanguage(h) = Undefined
  \/ HighlighterLanguage(h) \in CodeBlockActions[actionId].acceptedLanguages

\* lines 514-520: getSelectedCodeContextMenu
getSelectedCodeContextMenu ==
  [code |-> IF documentSelection = Undefined THEN "" ELSE documentSelection,
   type |-> "selection"]

\* lines 522-528: getSelectedCode
getSelectedCode(h) == [code |-> BlockText(h), type |-> "block"]

\* a copy handler that takes the whole block
CopiedCode_Block(h) == getSelectedCode(h)

\* line 418: the code the copy handler takes
CopiedCode(h) == getSelectedCodeContextMenu

\* a copy handler without the length check
ShouldCopy_Always(code) == TRUE

\* line 419: selectedCode.code.length > 0
ShouldCopy(code) == code # ""

\* lines 530-540: this.onCopiedToClipboard(textToSendClipboard, type)
onCopiedToClipboard(h, textToSendClipboard, type) ==
  IF hlProps[h].onCopiedToClipboard
  THEN InvokeProp(hlProps[h].onCopiedToClipboard,
                  [fn |-> "onCopiedToClipboard", type |-> type,
                   text |-> textToSendClipboard,
                   codeBlockIndex |-> HighlighterIndex(h)])
  ELSE <<>>

\* lines 375-512: the highlighters as constructed, nothing selected
InitHighlighter ==
  /\ hlProps \in [Highlighters -> [onCopiedToClipboard : BOOLEAN,
                                   onCodeBlockAction : BOOLEAN]]
  /\ hlProps[2] = [onCopiedToClipboard |-> TRUE, onCodeBlockAction |-> TRUE]
  /\ flashing = {<<h, a>> \in Highlighters \X ActionIds :
                   ValidAction(h, a) /\ CodeBlockActions[a].flash # Undefined}
  /\ documentSelection = Undefined
  /\ pendingWrites = EmptyBag
  /\ clipboard = ""
  /\ hlStep = [op |-> "constructor", hl |-> 1, selected |-> Undefined,
               started |-> FALSE, made |-> <<>>]

\* the user changes the document's selection
SelectionChange(sel) ==
  /\ sel # documentSelection
  /\ documentSelection' = sel
  /\ hlStep' = [op |-> "select", hl |-> hlStep.hl, selected |-> sel,
                started |-> FALSE, made |-> <<>>]
  /\ calls' = <<>>
  /\ UNCHANGED <<hlProps, flashing, pendingWrites, clipboard>>
  /\ UNCHANGED <<envVars, promptVars, feedbackVars>>

\* lines 416-424: a copy event in the block of highlighter h; copyToClipboard
\* starts a clipboard write that keeps the callback of line 421
CopyEvent(h) ==
  /\ IF ShouldCopy(CopiedCode(h).code)
     THEN /\ BagCardinality(pendingWrites) < MaxPending
          /\ pendingWrites' = pendingWrites (+)
               SetToBag({[hl |-> h, code |-> CopiedCode(h).code,
                          type |-> CopiedCode(h).type,
                          selected |-> documentSelection]})
     ELSE UNCHANGED pendingWrites
  /\ hlStep' = [op |-> "copy", hl |-> h, selected |-> documentSelection,
                started |-> pendingWrites' # pendingWrites, made |-> <<>>]
  /\ calls' = <<>>
  /\ UNCHANGED <<hlProps, flashing, documentSelection, clipboard>>
  /\ UNCHANGED <<envVars, promptVars, feedbackVars>>

\* copyToClipboard: the write w completes and its callback (line 421) runs
ClipboardWriteCompletes(w) ==
  /\ w \in BagToSet(pendingWrites)
  /\ pendingWrites' = pendingWrites (-) SetToBag({w})
  /\ clipboard' = w.code
  /\ calls' = onCopiedToClipboard(w.hl, w.code, w.type)
  /\ hlStep' = [op |-> "copied", hl |-> w.hl, selected |-> w.selected,
                started |-> FALSE, made |-> calls']
  /\ UNCHANGED <<hlProps, flashing, documentSelection>>
  /\ UNCHANGED <<envVars, promptVars, feedbackVars>>

\* copyToClipboard: the write w fails and its callback never runs
ClipboardWriteFails(w) ==
  /\ w \in BagToSet(pendingWrites)
  /\ pendingWrites' = pendingWrites (-) SetToBag({w})
  /\ calls' = <<>>
  /\ hlStep' = [op |-> "writeFailed", hl |-> w.hl, selected |-> w.selected,
                started |-> FALSE, made |-> <<>>]
  /\ UNCHANGED <<hlProps, flashing, documentSelection, clipboard>>
  /\ UNCHANGED <<envVars, promptVars, feedbackVars>>

\* line 456: this.props?.onCodeBlockAction !== undefined
OnCodeBlockActionDefined(h) == hlProps[h].onCodeBlockAction

\* lines 443-447: the pointer hovers over a flashing button; onTarget says
\* whether the event's target is the button itself or an element inside it
ActionButtonHover(h, actionId, onTarget) ==
  /\ ValidAction(h, actionId)
  /\ CodeBlockActions[actionId].flash # Undefined
  /\ <<h, actionId>> \in flashing
  /\ flashing' = IF onTarget THEN flashing \ {<<h, actionId>>} ELSE flashing
  /\ hlStep' = [op |-> "hover", hl |-> h, selected |-> documentSelection,
                started |-> FALSE, made |-> <<>>]
  /\ calls' = <<>>
  /\ UNCHANGED <<hlProps, documentSelection, pendingWrites, clipboard>>
  /\ UNCHANGED <<envVars, promptVars, feedbackVars>>

\* lines 450-466: a click on the button of action actionId in highlighter h
ActionButtonClick(h, actionId, onTarget) ==
  /\ ValidAction(h, actionId)
  /\ flashing' = IF onTarget THEN flashing \ {<<h, actionId>>} ELSE flashing
  /\ calls' = IF OnCodeBlockActionDefined(h)
              THEN InvokeProp(hlProps[h].onCodeBlockAction,
                              [fn |-> "onCodeBlockAction",
                               actionId |-> actionId,
                               type |-> getSelectedCode(h).type,
                               text |-> getSelectedCode(h).code,
                               codeBlockIndex |-> HighlighterIndex(h)])
              ELSE <<>>
  /\ hlStep' = [op |-> "click", hl |-> h, selected |-> documentSelection,
                started |-> FALSE, made |-> calls']
  /\ UNCHANGED <<hlProps, documentSelection, pendingWrites, clipboard>>
  /\ UNCHANGED <<envVars, promptVars, feedbackVars>>

(***************************************************************************)
(* Specifications.                                                         *)
(***************************************************************************)
Init == InitPrompt /\ InitForm /\ InitHighlighter

\* a PromptTextInput of an enabled tab, its store left alone
PromptStoreAsDefault ==
  /\ tabStore = [t \in Tabs |-> [promptInputDisabledState |-> FALSE,
                                 promptInputPlaceholder |-> "p1"]]
  /\ promptTextInputMaxLength = "100"

\* a PromptTextInput nobody touches
PromptAsDefault ==
  /\ PromptStoreAsDefault
  /\ autoFocus
  /\ hasOnInput

\* a FeedbackForm with two options and no initPayload
FormAsDefault ==
  /\ feedbackOptions = <<"o1", "o2">>
  /\ feedbackPayload = ConstructorPayload(feedbackOptions, NoInitPayload)
  /\ commentField = ""

\* highlighters that were given every optional prop
HighlightersAsDefault ==
  hlProps = [h \in Highlighters |-> [onCopiedToClipboard |-> TRUE,
                                     onCodeBlockAction |-> TRUE]]

\* the textarea contents the user enters in SpecCallbacks
ShortUserText == {s \in UserText : Len(s) <= 1}

\* the user's key presses: keydown, keypress and input events
NextKeys ==
  \/ \E key \in Keys : KeydownEvent(key)
  \/ \E key \in Keys : KeypressEvent(key)
  \/ \E v \in UserText : InputEvent(v)
  \/ FocusEvent
  \/ BlurEvent

\* the user's edits and the widget's value API
NextText ==
  \/ \E v \in UserText : InputEvent(v)
  \/ FocusEvent
  \/ BlurEvent
  \/ \E v \in Str : \E ph \in PlaceHolderArgs : updateTextInputValue(v, ph)
  \/ clear
  \/ \E c \in {<<>>} \cup {<<i>> : i \in 0..MaxLen} : focus(c)
  \/ \E m \in LengthValues : updateTextInputMaxLength(m)
  \/ \E text \in Placeholders : updateTextInputPlaceholder(text)

\* the tab store's publications and the placeholder API
NextStore ==
  \/ \E tab \in Tabs : \E b \in BOOLEAN : PublishDisabledState(tab, b)
  \/ \E tab \in Tabs : \E text \in Placeholders \cup {Undefined} :
       PublishPlaceholder(tab, text)
  \/ \E tab \in Tabs : TabFocusEvent(tab)
  \/ BlurEvent
  \/ clear
  \/ \E text \in Placeholders : updateTextInputPlaceholder(text)

\* the FeedbackForm's events, timers and clicks
NextForm ==
  \/ \E data \in ShowData : ShowFeedbackFormEvent(data)
  \/ ShowTimerFires
  \/ \E i \in 1..Len(feedbackOptions) : SelectChangeEvent(i)
  \/ \E c \in Comments \cup {""} : CommentChangeEvent(c)
  \/ close
  \/ CancelClick
  \/ HeaderCloseClick
  \/ SubmitClick

\* the events that reach the optional callback props
NextCallbacks ==
  \/ \E sel \in Texts \cup {"", Undefined} : SelectionChange(sel)
  \/ \E h \in Highlighters : CopyEvent(h)
  \/ \E w \in BagToSet(pendingWrites) : ClipboardWriteCompletes(w)
  \/ \E w \in BagToSet(pendingWrites) : ClipboardWriteFails(w)
  \/ \E h \in Highlighters : \E a \in ActionIds : \E onTarget \in BOOLEAN :
       ActionButtonHover(h, a, onTarget)
  \/ \E h \in Highlighters : \E a \in ActionIds : \E onTarget \in BOOLEAN :
       ActionButtonClick(h, a, onTarget)
  \/ \E v \in ShortUserText : InputEvent(v)

\* PromptTextInput: the store publishes nothing and keeps its first values
InitText ==
  /\ Init
  /\ PromptStoreAsDefault
  /\ FormAsDefault
  /\ HighlightersAsDefault

SpecText == InitText /\ [][NextText]_vars

SpecKeys == InitText /\ [][NextKeys]_vars

\* PromptTextInput: any first store values
InitStore ==
  /\ Init
  /\ hasOnInput
  /\ promptTextInputMaxLength = "100"
  /\ FormAsDefault
  /\ HighlightersAsDefault

SpecStore == InitStore /\ [][NextStore]_vars

\* FeedbackForm: any options and initPayload
InitFormOnly ==
  /\ Init
  /\ PromptAsDefault
  /\ HighlightersAsDefault

SpecForm == InitFormOnly /\ [][NextForm]_vars

\* SyntaxHighlighter and PromptTextInput with or without callback props
InitCallbacks ==
  /\ Init
  /\ PromptStoreAsDefault
  /\ autoFocus
  /\ FormAsDefault

SpecCallbacks == InitCallbacks /\ [][NextCallbacks]_vars

Next == NextKeys \/ NextText \/ NextStore \/ NextForm \/ NextCallbacks

Spec == Init /\ [][Next]_vars

(***************************************************************************)
(* Claims about PromptTextInput.                                           *)
(***************************************************************************)
Range(s) == {s[i] : i \in 1..Len(s)}

\* C2 (as amended): getTextInputValue() returns the latest user input or
\* programmatic set with its newlines normalized (CRLF and CR read back as
\* LF): '' after clear() and focus(), and focus(cursorIndex),
\* updateTextInputMaxLength and updateTextInputPlaceholder leave it alone.
C2_ValueIsLastSetNormalized ==
  getTextInputValue = NormalizeNewlines(lastSet)

\* a state where a set value with a carriage return reads back changed
C2_Witness ==
  /\ CR \in Range(lastSet)
  /\ getTextInputValue # lastSet
  /\ maxlengthAttr # "MAX_USER_INPUT"

\* C2 (as stated): getTextInputValue() returns exactly the latest user
\* input or programmatic set, for every string.
C2_ValueIsLastSet == getTextInputValue = lastSet

\* C3: the attribute disabled is present iff the latest value published
\* for the widget's tab is true, or, before any publication, iff the store
\* value read at construction is true.
C3_DisabledReflectsStore ==
  disabledAttr = IF lastDisabled = <<>>
                 THEN tabStore[PromptTabId].promptInputDisabledState
                 ELSE lastDisabled[1]

\* the attribute was removed by a publication of false while the other
\* tab's store says true
C3_Witness ==
  /\ lastDisabled = <<FALSE>>
  /\ ~disabledAttr
  /\ \E t \in Tabs \ {PromptTabId} : tabStore[t].promptInputDisabledState

\* C4: once a placeholder source has acted, the attribute placeholder is
\* the latest of: a defined published value, updateTextInputPlaceholder's
\* argument, the store's value at clear(); a published undefined leaves it.
C4_PlaceholderIsLatest ==
  lastPlaceholder # "none" => placeholderAttr = lastPlaceholder

\* undefined was published after a placeholder was set: the attribute stays
C4_Witness ==
  /\ tabStore[PromptTabId].promptInputPlaceholder = Undefined
  /\ lastPlaceholder \in Placeholders
  /\ placeholderAttr = lastPlaceholder

\* C8: a keydown is forwarded iff its key is non-empty; a keypress is
\* forwarded iff the latest keydown had an empty key (never before any
\* keydown); so a keydown and the keypress after it are never both forwarded.
C8_KeyForwardedOnce ==
  /\ keyLog.event = "keydown" =>
       (keyLog.made # <<>> <=> keyLog.downKey # "")
  /\ keyLog.event = "keypress" =>
       /\ keyLog.made # <<>> <=> keyLog.downKey = ""
       /\ Len(keyLog.downMade) + Len(keyLog.made) <= 1
  /\ \A i \in 1..Len(keyLog.made) :
       /\ keyLog.made[i].fn = "onKeydown"
       /\ keyLog.made[i].event = keyLog.event
  /\ Len(keyLog.made) <= 1

\* a keypress forwarded after a keydown with an empty key
C8_Witness ==
  /\ keyLog.event = "keypress"
  /\ keyLog.downKey = ""
  /\ keyLog.made # <<>>

\* C9: the wrapper has the class no-text iff the trimmed textarea value is
\* the empty string.
C9_NoTextIffBlank == noText <=> (Trim(getTextInputValue) = <<>>)

\* the value is whitespace only and the class is set
C9_Witness == noText /\ getTextInputValue # <<>>

(***************************************************************************)
(* Claims about FeedbackForm.                                              *)
(***************************************************************************)
ClosingSteps == {"close", "cancel", "headerClose", "submit"}

DefaultPayload ==
  [messageId |-> "", tabId |-> "", comment |-> "",
   selectedOption |-> feedbackOptions[1]]

\* C1: right after close() (called directly or by the cancel, header close
\* or submit button) the payload is the default payload, the Select shows
\* the first configured option, the comment field is empty and the wrapper
\* has lost the class mynah-feedback-form-show.
C1_CloseResetsForm ==
  formStep \in ClosingSteps =>
    /\ feedbackPayload = DefaultPayload
    /\ selectedIndex = 1
    /\ commentField = ""
    /\ ~formShown

\* a form closed by submit whose option, comment and ids had all been set
C1_Witness ==
  /\ formStep = "submit"
  /\ calls[1].payload.selectedOption # feedbackOptions[1]
  /\ calls[1].payload.comment # ""
  /\ calls[1].payload.messageId # ""
  /\ feedbackPayload = DefaultPayload
  /\ selectedIndex = 1

\* C7: a submit click dispatches exactly one FEEDBACK_SET, whose payload
\* carries the messageId and tabId of the SHOW_FEEDBACK_FORM event that
\* opened the form, the option last chosen and the comment last entered,
\* and leaves the form hidden with the default payload; cancel and the
\* header's close button dispatch nothing.
C7_SubmitDispatchesOpenedForm ==
  [][/\ formStep' = "submit" =>
          /\ Len(calls') = 1
          /\ calls'[1].fn = "FEEDBACK_SET"
          /\ lastShow # <<>>
          /\ calls'[1].payload =
               [messageId |-> lastShow[1].messageId,
                tabId |-> lastShow[1].tabId,
                selectedOption |-> enteredOption,
                comment |-> enteredComment]
          /\ ~formShown'
          /\ feedbackPayload' = DefaultPayload
     /\ formStep' \in {"cancel", "headerClose"} => calls' = <<>>]_vars

\* C10: whenever the form is shown, the payload's messageId and tabId are
\* those of the latest SHOW_FEEDBACK_FORM event, and no FEEDBACK_SET is
\* dispatched with other ids.
C10_ShownFormHasLatestIds ==
  /\ formShown =>
       /\ lastShow # <<>>
       /\ feedbackPayload.messageId = lastShow[1].messageId
       /\ feedbackPayload.tabId = lastShow[1].tabId
  /\ formStep = "submit" =>
       /\ lastShow # <<>>
       /\ calls[1].payload.messageId = lastShow[1].messageId
       /\ calls[1].payload.tabId = lastShow[1].tabId

\* C11: in every reachable state of FeedbackForm the payload's
\* selectedOption is the value the options Select displays and the payload's
\* comment is the content of the comment field.
C11_PayloadMatchesFields ==
  /\ feedbackPayload.selectedOption =
       Select_getValue(feedbackOptions, selectedIndex)
  /\ feedbackPayload.comment = commentField

\* the same, from the first close() on and for forms whose Select was
\* constructed showing the payload's option
C11_MatchesOnceSelectAgrees ==
  [][C11_PayloadMatchesFields => C11_PayloadMatchesFields']_vars

(***************************************************************************)
(* Claims about SyntaxHighlighter and the optional callback props.         *)
(***************************************************************************)
NoSelection == {"", Undefined}

\* C5: a copy event with a non-empty selection starts a clipboard write of
\* the selected text; when the write completes the clipboard holds that
\* text and onCopiedToClipboard is invoked exactly once with type
\* 'selection', that text and the highlighter's own index; no step invokes
\* it with type 'block'.
C5_CopySendsSelection ==
  /\ (hlStep.op = "copy" /\ documentSelection \notin NoSelection) =>
       /\ hlStep.started
       /\ \E w \in BagToSet(pendingWrites) :
            w.hl = hlStep.hl /\ w.code = documentSelection
  /\ hlStep.op = "copied" =>
       /\ hlStep.selected \notin NoSelection
       /\ clipboard = hlStep.selected
       /\ hlProps[hlStep.hl].onCopiedToClipboard =>
            hlStep.made =
              <<[fn |-> "onCopiedToClipboard", type |-> "selection",
                 text |-> hlStep.selected,
                 codeBlockIndex |-> HighlighterIndex(hlStep.hl)]>>
  /\ \A i \in 1..Len(hlStep.made) :
       hlStep.made[i].fn = "onCopiedToClipboard" =>
         hlStep.op = "copied" /\ hlStep.made[i].type = "selection"

\* the second highlighter's copy completed after the selection had changed
C5_Witness ==
  /\ hlStep.op = "copied"
  /\ hlStep.hl = 2
  /\ hlStep.made # <<>>
  /\ documentSelection \in Texts \ {hlStep.selected}

\* C6: a copy event without a selection starts no clipboard write and
\* invokes nothing; a failed write invokes nothing; and with
\* onCopiedToClipboard, onCodeBlockAction or onInput absent the copy, click
\* or input event throws nothing, invokes nothing and leaves the widget as
\* it would with the prop.
C6_SilentNoOps ==
  /\ (hlStep.op = "copy" /\ documentSelection \in NoSelection) =>
       ~hlStep.started /\ hlStep.made = <<>>
  /\ hlStep.op = "writeFailed" => hlStep.made = <<>>
  /\ \A i \in 1..Len(calls) : calls[i].fn # "TypeError"
  /\ \A i \in 1..Len(hlStep.made) : hlStep.made[i].fn # "TypeError"
  /\ (hlStep.op = "copied" /\ ~hlProps[hlStep.hl].onCopiedToClipboard) =>
       hlStep.made = <<>> /\ clipboard = hlStep.selected
  /\ (hlStep.op = "click" /\ ~hlProps[hlStep.hl].onCodeBlockAction) =>
       hlStep.made = <<>>
  /\ ~hasOnInput =>
       /\ \A i \in 1..Len(calls) : calls[i].fn # "onInput"
       /\ getTextInputValue = NormalizeNewlines(lastSet)
       /\ noText <=> (Trim(getTextInputValue) = <<>>)

\* with onInput and onCodeBlockAction absent, text was entered and a button
\* of the first highlighter was clicked
C6_Witness ==
  /\ ~hasOnInput
  /\ lastSet # <<>>
  /\ hlStep.op = "click"
  /\ hlStep.hl = 1
  /\ ~hlProps[1].onCodeBlockAction
=============================================================================
